---- MODULE Spec2Model ----
(***************************************************************************)
(* Model of the SERP price analysis dashboard                              *)
(* (src/app_py_herramienta_de_análisis_de_precios.py).                     *)
(*                                                                         *)
(* One run of the Streamlit script is a walk of the program counter pc     *)
(* from the file uploader through load_and_process_data (one step per      *)
(* uploaded file, then the cleaning of the merged frame), the sidebar      *)
(* widgets, the filtering of the frame and the main panel.                 *)
(*                                                                         *)
(* Text is a sequence of one-character strings.  A missing cell (pandas    *)
(* NaN) is the one-element sequence NaN, which is no text.  A date is the  *)
(* integer yyyymmdd, NaT is 0.  A number is [nan, m, e]: m / 10^e, with no *)
(* trailing zero in the fraction, so that equal numbers are equal records. *)
(***************************************************************************)
EXTENDS Integers, Sequences, FiniteSets, TLC

VARIABLES uploaded_files, pc, i, all_data, messages, df, selection,
          filtered_df, rendered

vars == <<uploaded_files, pc, i, all_data, messages, df, selection,
          filtered_df, rendered>>

----------------------------------------------------------------------------
(* Characters and text *)

Digits == {"0", "1", "2", "3", "4", "5", "6", "7", "8", "9"}

DigitSeq == <<"0", "1", "2", "3", "4", "5", "6", "7", "8", "9">>

LowerSeq == <<"a", "b", "c", "d", "e", "f", "g", "h", "i", "j", "k", "l", "m",
              "n", "o", "p", "q", "r", "s", "t", "u", "v", "w", "x", "y", "z">>

UpperSeq == <<"A", "B", "C", "D", "E", "F", "G", "H", "I", "J", "K", "L", "M",
              "N", "O", "P", "Q", "R", "S", "T", "U", "V", "W", "X", "Y", "Z">>

Range(s) == {s[k] : k \in DOMAIN s}

Letters == Range(LowerSeq) \cup Range(UpperSeq)

NaN == <<"NaN">>

NaT == 0

DigitVal(c) == (CHOOSE k \in DOMAIN DigitSeq : DigitSeq[k] = c) - 1

RECURSIVE Pow10(_)
Pow10(n) == IF n = 0 THEN 1 ELSE 10 * Pow10(n - 1)

RECURSIVE IntOf(_)
IntOf(s) == IF s = <<>> THEN 0
            ELSE 10 * IntOf(SubSeq(s, 1, Len(s) - 1)) + DigitVal(s[Len(s)])

IsDigits(s) == \A k \in DOMAIN s : s[k] \in Digits

StartsWith(s, p) == Len(s) >= Len(p) /\ SubSeq(s, 1, Len(p)) = p

Drop(s, n) == SubSeq(s, n + 1, Len(s))

\* str(cell): a text cell is itself, a missing cell prints as "nan".
Str(cell) == IF cell = NaN THEN <<"n", "a", "n">> ELSE cell

\* The tuples of length at most n over the alphabet.
RECURSIVE Texts(_, _)
Texts(alphabet, n) ==
    IF n = 0 THEN {<<>>}
    ELSE LET shorter == Texts(alphabet, n - 1)
         IN  shorter \cup {Append(t, c) : t \in shorter, c \in alphabet}

----------------------------------------------------------------------------
(* pd.to_datetime(df['date'], format='%d-%m-%y', errors='coerce') *)

RECURSIVE Split(_, _)
Split(s, sep) ==
    IF \A k \in DOMAIN s : s[k] # sep THEN <<s>>
    ELSE LET k == CHOOSE j \in DOMAIN s :
                      s[j] = sep /\ \A h \in 1..(j - 1) : s[h] # sep
         IN  <<SubSeq(s, 1, k - 1)>> \o Split(Drop(s, k), sep)

IsLeap(y) == y % 4 = 0 /\ (y % 100 # 0 \/ y % 400 = 0)

DaysIn(m, y) == IF m = 2 THEN (IF IsLeap(y) THEN 29 ELSE 28)
                ELSE IF m \in {4, 6, 9, 11} THEN 30 ELSE 31

\* %y: 00..68 are 2000..2068, 69..99 are 1969..1999.
Year(yy) == IF yy <= 68 THEN 2000 + yy ELSE 1900 + yy

ParseDate(cell) ==
    IF cell = NaN THEN NaT
    ELSE LET f == Split(cell, "-")
         IN  IF Len(f) # 3 THEN NaT
             ELSE IF ~(IsDigits(f[1]) /\ IsDigits(f[2]) /\ IsDigits(f[3])) THEN NaT
             ELSE IF ~(Len(f[1]) \in {1, 2} /\ Len(f[2]) \in {1, 2} /\ Len(f[3]) = 2)
                  THEN NaT
             ELSE LET d == IntOf(f[1])
                      m == IntOf(f[2])
                      y == Year(IntOf(f[3]))
                  IN  IF m \in 1..12 /\ d >= 1 /\ d <= DaysIn(m, y)
                      THEN y * 10000 + m * 100 + d
                      ELSE NaT

----------------------------------------------------------------------------
(* urlparse(str(url)).netloc.replace('www.', '') *)

SchemeChars == Letters \cup Digits \cup {"+", "-", "."}

Find(s, cs) == IF \E k \in DOMAIN s : s[k] \in cs
               THEN CHOOSE k \in DOMAIN s : s[k] \in cs /\ \A h \in 1..(k - 1) : s[h] \notin cs
               ELSE 0

\* urlsplit: the text after a valid scheme and its colon, else the whole text.
AfterScheme(url) ==
    LET c == Find(url, {":"})
    IN  IF c > 1 /\ url[1] \in Letters /\ \A k \in 1..(c - 1) : url[k] \in SchemeChars
        THEN Drop(url, c)
        ELSE url

\* urlsplit's netloc: what follows a leading // up to the first of / ? #.
Netloc(url) ==
    LET rest == AfterScheme(url)
    IN  IF StartsWith(rest, <<"/", "/">>)
        THEN LET body == Drop(rest, 2)
                 stop == Find(body, {"/", "?", "#"})
             IN  IF stop = 0 THEN body ELSE SubSeq(body, 1, stop - 1)
        ELSE <<>>

\* urlsplit raises ValueError("Invalid IPv6 URL") on an unmatched bracket.
UrlRaises(url) ==
    LET n == Range(Netloc(url))
    IN  ("[" \in n /\ "]" \notin n) \/ ("]" \in n /\ "[" \notin n)

Www == <<"w", "w", "w", ".">>

\* str.replace(old, ''): every non-overlapping occurrence, left to right.
RECURSIVE RemoveAll(_, _)
RemoveAll(s, old) ==
    IF s = <<>> THEN <<>>
    ELSE IF StartsWith(s, old) THEN RemoveAll(Drop(s, Len(old)), old)
    ELSE <<s[1]>> \o RemoveAll(Drop(s, 1), old)

Dominio(url) == RemoveAll(Netloc(Str(url)), Www)

----------------------------------------------------------------------------
(* The cleaning of the price column *)

KeptByRegex(c) == c \in Digits \cup {",", "."}

NotComma(c) == c # ","

\* StripPrice by the rule of the earlier variants: '$' and '.' removed,
\* then ',' read as the decimal point.
DollarOrDot(c) == c \notin {"$", "."}

StripPriceDecimalComma(raw) ==
    LET kept == SelectSeq(Str(raw), DollarOrDot)
    IN  [k \in DOMAIN kept |-> IF kept[k] = "," THEN "." ELSE kept[k]]

\* .str.replace(r'[^\d,.]', '').str.replace(',', '')
StripPrice(raw) == SelectSeq(SelectSeq(Str(raw), KeptByRegex), NotComma)

NaNPrice == [nan |-> TRUE, m |-> 0, e |-> 0]

RECURSIVE Normal(_, _)
Normal(m, e) == IF e > 0 /\ m % 10 = 0 THEN Normal(m \div 10, e - 1)
                ELSE [nan |-> FALSE, m |-> m, e |-> e]

IsDigit(c) == c \in Digits

\* pd.to_numeric(errors='coerce') of a text of digits and dots.
ToNumeric(s) ==
    LET dots == {k \in DOMAIN s : s[k] = "."}
        digs == SelectSeq(s, IsDigit)
    IN  IF Cardinality(dots) > 1 \/ digs = <<>> \/ ~(\A k \in DOMAIN s : s[k] \in Digits \cup {"."})
        THEN NaNPrice
        ELSE LET e == IF dots = {} THEN 0 ELSE Len(s) - (CHOOSE k \in dots : TRUE)
             IN  Normal(IntOf(digs), e)

CleanPrice(raw) == ToNumeric(StripPrice(raw))

\* a < b, a <= b for two numbers that are not nan
Less(a, b) == a.m * Pow10(b.e) < b.m * Pow10(a.e)

----------------------------------------------------------------------------
(* price_level -> price_level_numeric *)

ToLowerChar(c) == IF \E k \in DOMAIN UpperSeq : UpperSeq[k] = c
                  THEN LowerSeq[CHOOSE k \in DOMAIN UpperSeq : UpperSeq[k] = c]
                  ELSE c

Lower(s) == [k \in DOMAIN s |-> ToLowerChar(s[k])]

\* level_map; a key that is not in the map gives no value (0).
NoLevel == 0

LevelMap(s) == IF s = <<"b", "a", "j", "o">> THEN 1
               ELSE IF s = <<"m", "e", "d", "i", "o">> THEN 2
               ELSE IF s = <<"a", "l", "t", "o">> THEN 3
               ELSE NoLevel

\* .str.lower().map(level_map): a missing cell stays missing.
LevelNumeric(cell) == IF cell = NaN THEN NoLevel ELSE LevelMap(Lower(cell))

----------------------------------------------------------------------------
(* An uploaded file, as pd.read_csv(..., sep=',', skipinitialspace=True)   *)
(* sees it.  columns are the header's names, pad says that the header is   *)
(* written with blanks around the names, sep is the delimiter the file is  *)
(* written with, malformed says that the parser raises on its content.     *)
(* A row holds the cells of the five columns the program reads; the cell   *)
(* of a column the file does not have is NaN.  A cell that read_csv reads  *)
(* as missing (empty, "NA", "null", ...) is NaN.                           *)

required_cols == {"Keyword", "price", "URL", "date"}

\* The header read with the comma as the delimiter: a file written with
\* another delimiter has one column, named by its whole header line.
ReadHeader(file) ==
    IF file.sep = ","
    THEN {[txt |-> c, pad |-> file.pad] : c \in file.columns}
    ELSE {[txt |-> "Keyword;price;URL;date", pad |-> file.pad]}

\* df.columns.str.strip()
StripColumns(header) == {c.txt : c \in header}

ColumnsOf(file) == StripColumns(ReadHeader(file))

HasRequired(file) == required_cols \subseteq ColumnsOf(file)

\* What the try block raises on: the parser, or urlparse on a row's URL.
Raises(file) ==
    \/ file.malformed
    \/ HasRequired(file) /\ \E k \in DOMAIN file.rows : UrlRaises(Str(file.rows[k].URL))

\* read_csv gives a column the object dtype when a cell of it is text that
\* is no number; a column of empty or numeric cells is float64 or int64.
IsTextCell(cell) == cell # NaN /\ ToNumeric(cell).nan

\* Lines 41-45 on one row of file number n.
ProcessRow(file, n, k) ==
    LET r == file.rows[k]
    IN  [src         |-> <<n, k>>,
         fecha       |-> ParseDate(r.date),
         producto    |-> r.Keyword,
         price       |-> r.price,
         dominio     |-> Dominio(r.URL),
         price_level |-> IF "price_level" \in ColumnsOf(file) THEN r.price_level ELSE NaN]

\* The frame appended to all_data for file number n.
ProcessFile(file, n) ==
    [columns    |-> (ColumnsOf(file) \ {"Keyword"}) \cup {"fecha", "dominio", "producto"},
     level_text |-> "price_level" \in ColumnsOf(file)
                    /\ \E k \in DOMAIN file.rows : IsTextCell(file.rows[k].price_level),
     rows       |-> [k \in DOMAIN file.rows |-> ProcessRow(file, n, k)]]

EmptyFrame == [columns |-> {}, rows |-> <<>>]

Msg(kind, about) == [kind |-> kind, about |-> about]

----------------------------------------------------------------------------
(* pd.concat and the cleaning of the merged frame *)

RECURSIVE ConcatRows(_)
ConcatRows(frames) ==
    IF frames = <<>> THEN <<>>
    ELSE frames[1].rows \o ConcatRows(Tail(frames))

ConcatColumns(frames) == UNION {frames[k].columns : k \in DOMAIN frames}

\* The merged price_level column holds text (object dtype) when it does in
\* one of the frames.
LevelIsText(frames) == \E k \in DOMAIN frames : frames[k].level_text

HasFecha(r) == r.fecha # NaT

\* DropNoFecha without the dropna.
DropNoFechaKeepsAll(rows) == rows

\* full_df.dropna(subset=['fecha'])
DropNoFecha(rows) == SelectSeq(rows, HasFecha)

HasPrice(r) == ~r.price.nan

\* Lines 64-67: the price column cleaned, the rows without a number dropped.
CleanPrices(rows) ==
    SelectSeq([k \in DOMAIN rows |-> [rows[k] EXCEPT !.price = CleanPrice(@)]], HasPrice)

\* Series.str raises AttributeError on a column that does not hold text.
StrAccessorRaises(frames) ==
    "price_level" \in ConcatColumns(frames) /\ ~LevelIsText(frames)

\* groupby(['fecha', 'producto'])['price'].transform('min'): groupby leaves
\* the rows with a missing key out, and transform gives them no value.
PrecioMinimo(rows, r) ==
    IF r.producto = NaN THEN NaNPrice
    ELSE LET group == {rows[k].price : k \in {j \in DOMAIN rows :
                           rows[j].fecha = r.fecha /\ rows[j].producto = r.producto}}
         IN  CHOOSE p \in group : \A q \in group : ~Less(q, p)

\* full_df['price'] == full_df['precio_minimo']
EsPrecioMasBajo(price, minimo) == ~minimo.nan /\ price = minimo

\* Lines 69-76 on the rows that have a date and a price.
Derive(rows, with_level) ==
    [k \in DOMAIN rows |->
        LET r == rows[k]
            minimo == PrecioMinimo(rows, r)
        IN  [src                 |-> r.src,
             fecha               |-> r.fecha,
             producto            |-> r.producto,
             price               |-> r.price,
             dominio             |-> r.dominio,
             price_level         |-> r.price_level,
             price_level_numeric |-> IF with_level THEN LevelNumeric(r.price_level)
                                     ELSE NoLevel,
             precio_minimo       |-> minimo,
             es_precio_mas_bajo  |-> EsPrecioMasBajo(r.price, minimo)]]

CleanColumns(frames) ==
    ConcatColumns(frames) \cup {"precio_minimo", "es_precio_mas_bajo"}
        \cup (IF "price_level" \in ConcatColumns(frames) THEN {"price_level_numeric"} ELSE {})

\* IsEmpty as a test for None, which a frame never is.
IsEmptyNever(frame) == FALSE

\* df.empty
IsEmpty(frame) == frame.rows = <<>>

----------------------------------------------------------------------------
(* The sidebar's options and the filtering of the frame *)

Fechas(rows) == {rows[k].fecha : k \in DOMAIN rows}

MinDate(rows) == IF rows = <<>> THEN NaT
                 ELSE CHOOSE d \in Fechas(rows) : \A x \in Fechas(rows) : d <= x

MaxDate(rows) == IF rows = <<>> THEN NaT
                 ELSE CHOOSE d \in Fechas(rows) : \A x \in Fechas(rows) : d >= x

IsCalendarDay(d) ==
    LET y == d \div 10000
        m == (d \div 100) % 100
    IN  m \in 1..12 /\ d % 100 >= 1 /\ d % 100 <= DaysIn(m, y)

\* What st.date_input can return between min_value and max_value: no date,
\* the start alone while the range is being picked, or a start and an end.
DateRanges(lo, hi) ==
    LET days == {d \in lo..hi : IsCalendarDay(d)}
    IN  {<<>>} \cup {<<a>> : a \in days}
               \cup {r \in days \X days : r[1] <= r[2]}

all_products(rows) == {rows[k].producto : k \in DOMAIN rows}

all_domains(rows) == {rows[k].dominio : k \in DOMAIN rows}

\* df['price_level'].dropna().unique()
all_price_levels(rows) == {rows[k].price_level : k \in DOMAIN rows} \ {NaN}

\* sorted() compares a missing value (a float) with text: TypeError.
SortedRaises(values) == NaN \in values /\ Cardinality(values) > 1

\* The selection the widgets show before the user touches them.
DefaultSelection(frame) ==
    [date_range   |-> <<MinDate(frame.rows), MaxDate(frame.rows)>>,
     products     |-> all_products(frame.rows),
     domains      |-> all_domains(frame.rows),
     price_levels |-> IF "price_level" \in frame.columns
                      THEN all_price_levels(frame.rows) ELSE {}]

Selections(frame) ==
    [date_range   : DateRanges(MinDate(frame.rows), MaxDate(frame.rows)),
     products     : SUBSET all_products(frame.rows),
     domains      : SUBSET all_domains(frame.rows),
     price_levels : IF "price_level" \in frame.columns
                    THEN SUBSET all_price_levels(frame.rows) ELSE {{}}]

\* RowPasses with the end of the range excluded.
RowPassesEndExcluded(r, sel) ==
    /\ r.fecha >= sel.date_range[1]
    /\ r.fecha < sel.date_range[2]
    /\ r.producto \in sel.products
    /\ r.dominio \in sel.domains

\* Lines 131-137.
RowPasses(r, sel) ==
    /\ r.fecha >= sel.date_range[1]
    /\ r.fecha <= sel.date_range[2]
    /\ r.producto \in sel.products
    /\ r.dominio \in sel.domains

\* TierFilterOn without the test of the selection: no selected tier
\* filters every row out.
TierFilterAlways(frame, sel) == "price_level" \in frame.columns

\* Line 138: the tier filter is applied when the column is there and a
\* tier is selected.
TierFilterOn(frame, sel) == "price_level" \in frame.columns /\ sel.price_levels # {}

\* Lines 129-142.
Filtered(frame, sel) ==
    IF Len(sel.date_range) = 2
    THEN LET passes(r) == RowPasses(r, sel)
             inTier(r) == r.price_level \in sel.price_levels
             first == SelectSeq(frame.rows, passes)
         IN  [columns |-> frame.columns,
              rows    |-> IF TierFilterOn(frame, sel) THEN SelectSeq(first, inTier)
                          ELSE first]
    ELSE EmptyFrame

FilterWidgets == {"date_input", "multiselect_products", "multiselect_domains",
                  "multiselect_price_levels"}

Views == {"evolucion", "nivel", "ranking", "snapshot", "tabla"}

\* The widgets the sidebar draws after the success message.
SidebarWidgets(frame) ==
    {"date_input", "multiselect_products", "multiselect_domains"}
        \cup (IF "price_level" \in frame.columns THEN {"multiselect_price_levels"} ELSE {})

\* The views the main panel draws over a frame that is not empty.
PanelViews(frame) ==
    {"evolucion", "snapshot", "tabla"}
        \cup (IF "price_level_numeric" \in frame.columns THEN {"nivel"} ELSE {})
        \cup (IF "price_level" \in frame.columns THEN {"ranking"} ELSE {})

NoSelection == [date_range |-> <<>>, products |-> {}, domains |-> {}, price_levels |-> {}]

----------------------------------------------------------------------------
(* The run of the script *)

\* Lines 94-96: nothing uploaded.
StopNoFiles ==
    /\ pc = "uploader"
    /\ uploaded_files = <<>>
    /\ messages' = Append(messages, Msg("info", <<"upload", 0>>))
    /\ pc' = "stopped"
    /\ UNCHANGED <<uploaded_files, i, all_data, df, selection, filtered_df, rendered>>

\* Lines 98, 22-26: load_and_process_data is entered.
CallLoad ==
    /\ pc = "uploader"
    /\ uploaded_files # <<>>
    /\ pc' = "loop"
    /\ i' = 1
    /\ all_data' = <<>>
    /\ UNCHANGED <<uploaded_files, messages, df, selection, filtered_df, rendered>>

\* ReadFileError with the try around the whole loop: the first file that
\* raises ends the load with an empty frame.
ReadFileErrorEndsLoad ==
    /\ pc = "loop"
    /\ i <= Len(uploaded_files)
    /\ Raises(uploaded_files[i])
    /\ messages' = Append(messages, Msg("error", uploaded_files[i].name))
    /\ df' = EmptyFrame
    /\ pc' = "loaded"
    /\ UNCHANGED <<uploaded_files, i, all_data, selection, filtered_df, rendered>>

\* Lines 48-50: the file raises, st.error names it, the loop goes on.
ReadFileError ==
    /\ pc = "loop"
    /\ i <= Len(uploaded_files)
    /\ Raises(uploaded_files[i])
    /\ messages' = Append(messages, Msg("error", uploaded_files[i].name))
    /\ i' = i + 1
    /\ UNCHANGED <<uploaded_files, pc, all_data, df, selection, filtered_df, rendered>>

\* Lines 36-38: a required column is missing, st.warning names the file.
ReadFileMissing ==
    /\ pc = "loop"
    /\ i <= Len(uploaded_files)
    /\ ~Raises(uploaded_files[i])
    /\ ~HasRequired(uploaded_files[i])
    /\ messages' = Append(messages, Msg("warning", uploaded_files[i].name))
    /\ i' = i + 1
    /\ UNCHANGED <<uploaded_files, pc, all_data, df, selection, filtered_df, rendered>>

\* Lines 41-47: the file's frame is appended to all_data.
ReadFileAppend ==
    /\ pc = "loop"
    /\ i <= Len(uploaded_files)
    /\ ~Raises(uploaded_files[i])
    /\ HasRequired(uploaded_files[i])
    /\ all_data' = Append(all_data, ProcessFile(uploaded_files[i], i))
    /\ i' = i + 1
    /\ UNCHANGED <<uploaded_files, pc, messages, df, selection, filtered_df, rendered>>

\* Lines 52-53: no file gave a frame.
ReturnNoData ==
    /\ pc = "loop"
    /\ i > Len(uploaded_files)
    /\ all_data = <<>>
    /\ df' = EmptyFrame
    /\ pc' = "loaded"
    /\ UNCHANGED <<uploaded_files, i, all_data, messages, selection, filtered_df, rendered>>

\* Lines 55-61: no row of the merged frame has a date.
ReturnDateError ==
    /\ pc = "loop"
    /\ i > Len(uploaded_files)
    /\ all_data # <<>>
    /\ DropNoFecha(ConcatRows(all_data)) = <<>>
    /\ messages' = Append(messages, Msg("error", <<"fecha", 0>>))
    /\ df' = EmptyFrame
    /\ pc' = "loaded"
    /\ UNCHANGED <<uploaded_files, i, all_data, selection, filtered_df, rendered>>

\* Line 72: the .str accessor raises, the exception leaves the function and
\* ends the run of the script.
CleanRaises ==
    /\ pc = "loop"
    /\ i > Len(uploaded_files)
    /\ all_data # <<>>
    /\ DropNoFecha(ConcatRows(all_data)) # <<>>
    /\ StrAccessorRaises(all_data)
    /\ messages' = Append(messages, Msg("exception", <<"AttributeError", 0>>))
    /\ pc' = "load_raised"
    /\ UNCHANGED <<uploaded_files, i, all_data, df, selection, filtered_df, rendered>>

\* Lines 55-78: the merged frame is cleaned and returned.
CleanReturn ==
    /\ pc = "loop"
    /\ i > Len(uploaded_files)
    /\ all_data # <<>>
    /\ DropNoFecha(ConcatRows(all_data)) # <<>>
    /\ ~StrAccessorRaises(all_data)
    /\ df' = [columns |-> CleanColumns(all_data),
              rows    |-> Derive(CleanPrices(DropNoFecha(ConcatRows(all_data))),
                                 "price_level" \in ConcatColumns(all_data))]
    /\ pc' = "loaded"
    /\ UNCHANGED <<uploaded_files, i, all_data, messages, selection, filtered_df, rendered>>

\* Lines 100-102: the frame is empty.
StopNoValid ==
    /\ pc = "loaded"
    /\ IsEmpty(df)
    /\ messages' = Append(messages, Msg("warning", <<"no valid data", 0>>))
    /\ pc' = "stopped"
    /\ UNCHANGED <<uploaded_files, i, all_data, df, selection, filtered_df, rendered>>

\* Line 116: sorted() raises on the products.
SidebarRaises ==
    /\ pc = "loaded"
    /\ ~IsEmpty(df)
    /\ SortedRaises(all_products(df.rows))
    /\ messages' = Append(messages, Msg("exception", <<"TypeError", 0>>))
    /\ rendered' = rendered \cup {"date_input"}
    /\ pc' = "sidebar_raised"
    /\ UNCHANGED <<uploaded_files, i, all_data, df, selection, filtered_df>>

\* Lines 104-126: the widgets are drawn and hold a selection.
Sidebar ==
    /\ pc = "loaded"
    /\ ~IsEmpty(df)
    /\ ~SortedRaises(all_products(df.rows))
    /\ \E sel \in Selections(df) : selection' = sel
    /\ messages' = Append(messages, Msg("success", <<"loaded", 0>>))
    /\ rendered' = rendered \cup SidebarWidgets(df)
    /\ pc' = "filter"
    /\ UNCHANGED <<uploaded_files, i, all_data, df, filtered_df>>

\* Lines 129-142.
Filter ==
    /\ pc = "filter"
    /\ filtered_df' = Filtered(df, selection)
    /\ pc' = "panel"
    /\ UNCHANGED <<uploaded_files, i, all_data, messages, df, selection, rendered>>

\* Lines 147-148.
PanelEmpty ==
    /\ pc = "panel"
    /\ IsEmpty(filtered_df)
    /\ messages' = Append(messages, Msg("warning", <<"no data for filters", 0>>))
    /\ pc' = "done"
    /\ UNCHANGED <<uploaded_files, i, all_data, df, selection, filtered_df, rendered>>

\* Lines 149-265.
PanelDraw ==
    /\ pc = "panel"
    /\ ~IsEmpty(filtered_df)
    /\ rendered' = rendered \cup PanelViews(filtered_df)
    /\ pc' = "done"
    /\ UNCHANGED <<uploaded_files, i, all_data, messages, df, selection, filtered_df>>

\* An interaction with a widget runs the script again from its first line,
\* over the same uploaded files (st.cache_data gives the same frame and the
\* same messages for the same files).
Rerun ==
    /\ pc \in {"stopped", "load_raised", "sidebar_raised", "done"}
    /\ pc' = "uploader"
    /\ i' = 0
    /\ all_data' = <<>>
    /\ messages' = <<>>
    /\ df' = EmptyFrame
    /\ selection' = NoSelection
    /\ filtered_df' = EmptyFrame
    /\ rendered' = {}
    /\ UNCHANGED uploaded_files

Next ==
    \/ StopNoFiles
    \/ CallLoad
    \/ ReadFileError
    \/ ReadFileMissing
    \/ ReadFileAppend
    \/ ReturnNoData
    \/ ReturnDateError
    \/ CleanRaises
    \/ CleanReturn
    \/ StopNoValid
    \/ SidebarRaises
    \/ Sidebar
    \/ Filter
    \/ PanelEmpty
    \/ PanelDraw
    \/ Rerun

----------------------------------------------------------------------------
(* The uploads the model is run over.  Init draws the uploaded files from  *)
(* several bounded families, each varying the cells one part of the        *)
(* program reads: the kinds of file, the (date, Keyword, price) of the     *)
(* groups, the cells the filters read, the price_level cells, the date and *)
(* price cells the cleaning drops rows on, and the texts of one price and  *)
(* of one URL.                                                             *)

MaxFiles == 3

MaxRows == 2

MaxWideRows == 3

MaxPriceLen == 3

MaxHostLen == 5

D1 == <<"0", "1", "-", "0", "1", "-", "2", "4">>
D2 == <<"0", "2", "-", "0", "1", "-", "2", "4">>
DNoHyphen == <<"0", "1", "0", "1", "2", "4">>
DNoSuchDay == <<"3", "1", "-", "0", "2", "-", "2", "4">>

KA == <<"t", "v">>
KB == <<"p", "c">>

P10 == <<"1", "0">>
P950 == <<"$", "9", ".", "5", "0">>
PNa == <<"n", "/", "a">>
PTwoDots == <<"1", ".", "2", ".", "3">>
PNoisy == <<"$", " ", "1", ",", "2", "3", "4", ".", "5", "6", " ", "U", "S", "D">>

U1 == <<"h", ":", "/", "/", "w", "w", "w", ".", "a", "/", "x">>
U2 == <<"/", "/", "b", ".", "a">>
UBracket == <<"/", "/", "[">>

LBajo == <<"B", "a", "j", "o">>
LMedio == <<"M", "E", "D", "I", "O">>
LAlto == <<"a", "l", "t", "o">>
LOther == <<"d", "e", "s", "c", "o", "n", "o", "c", "i", "d", "o">>

BaseColumns == required_cols \cup {"title"}

LevelColumns == BaseColumns \cup {"price_level"}

Row(date, keyword, price, url, level) ==
    [date |-> date, Keyword |-> keyword, price |-> price, URL |-> url,
     price_level |-> level]

GoodRow == Row(D1, KA, P10, U1, NaN)

File(sep, pad, columns, rows, malformed) ==
    [name |-> <<"file", 0>>, sep |-> sep, pad |-> pad, columns |-> columns,
     rows |-> rows, malformed |-> malformed]

\* The files of an upload are named by their place in it.
Named(files) == [k \in DOMAIN files |-> [files[k] EXCEPT !.name = <<"file", k>>]]

RECURSIVE SeqsUpTo(_, _)
SeqsUpTo(S, n) ==
    IF n = 0 THEN {<<>>}
    ELSE LET shorter == SeqsUpTo(S, n - 1)
         IN  shorter \cup {Append(t, x) : t \in shorter, x \in S}

FileKinds ==
    { File(",", FALSE, BaseColumns, <<GoodRow>>, FALSE),
      File(",", TRUE, BaseColumns, <<GoodRow>>, FALSE),
      File(";", FALSE, BaseColumns, <<GoodRow>>, FALSE),
      File(",", FALSE, BaseColumns \ {"URL"}, <<GoodRow>>, FALSE),
      File(",", FALSE, BaseColumns, <<GoodRow>>, TRUE),
      File(",", FALSE, BaseColumns, <<Row(D1, KA, P10, UBracket, NaN)>>, FALSE) }

FamilyFiles == {Named(fs) : fs \in SeqsUpTo(FileKinds, MaxFiles)}

OneFile(columns, rows) == Named(<<File(",", FALSE, columns, rows, FALSE)>>)

GroupRows == {Row(d, k, p, U1, NaN) : d \in {D1, D2}, k \in {KA, KB, NaN},
                                      p \in {P10, P950}}

FamilyGroups == {OneFile(BaseColumns, rows) : rows \in SeqsUpTo(GroupRows, MaxRows)}

FilterRows == {Row(D1, k, P10, u, l) : k \in {KA, KB}, u \in {U1, U2},
                                       l \in {NaN, LBajo}}

FamilyFilter == {OneFile(LevelColumns, rows) : rows \in SeqsUpTo(FilterRows, MaxRows)}

\* Rows with a date that does not parse, a price that does not, or both.
CleanRows == {Row(d, KA, P10, U1, NaN) : d \in {D1, DNoHyphen, DNoSuchDay, NaN}}
                 \cup {Row(D1, KA, p, U1, NaN) : p \in {PNa, PTwoDots, NaN}}
                 \cup {Row(DNoHyphen, KA, PNa, U1, NaN)}

FamilyClean == {OneFile(BaseColumns, rows) : rows \in SeqsUpTo(CleanRows, MaxWideRows)}

AndRows == {Row(D1, k, P10, u, LBajo) : k \in {KA, KB}, u \in {U1, U2}}

FamilyAnd == {OneFile(LevelColumns, rows) : rows \in SeqsUpTo(AndRows, MaxWideRows)}

LevelRows == {Row(D1, KA, P10, U1, l) : l \in {NaN, LBajo, LMedio, LAlto, LOther}}

\* The rows in one file that has the price_level column, or the first k of
\* them in such a file and the rest in a file that has not.
FamilyLevels ==
    {OneFile(LevelColumns, rows) : rows \in SeqsUpTo(LevelRows, MaxRows)}
    \cup {Named(<<File(",", FALSE, LevelColumns, SubSeq(s[1], 1, s[2]), FALSE),
                  File(",", FALSE, BaseColumns, Drop(s[1], s[2]), FALSE)>>) :
             s \in {t \in SeqsUpTo(LevelRows, MaxRows) \X (0..MaxRows) : t[2] <= Len(t[1])}}

PriceAlphabet == {"0", "1", ",", ".", "$"}

FamilyPrices ==
    {OneFile(BaseColumns, <<Row(D1, KA, p, U1, NaN)>>) :
        p \in Texts(PriceAlphabet, MaxPriceLen) \cup {PNoisy}}

HostAlphabet == {"w", ".", "a"}

FamilyUrls ==
    {OneFile(BaseColumns, <<Row(D1, KA, P10, <<"h", ":", "/", "/">> \o host \o <<"/", "x">>, NaN)>>) :
        host \in Texts(HostAlphabet, MaxHostLen)}

Uploads == FamilyFiles \cup FamilyGroups \cup FamilyFilter \cup FamilyAnd
               \cup FamilyClean \cup FamilyLevels \cup FamilyPrices \cup FamilyUrls

Init ==
    /\ uploaded_files \in Uploads
    /\ pc = "uploader"
    /\ i = 0
    /\ all_data = <<>>
    /\ messages = <<>>
    /\ df = EmptyFrame
    /\ selection = NoSelection
    /\ filtered_df = EmptyFrame
    /\ rendered = {}

Spec == Init /\ [][Next]_vars

----------------------------------------------------------------------------
(* What the properties below speak of *)

\* load_and_process_data has just returned its frame, df.
Returned == pc = "loaded"

\* load_and_process_data has just ended, by a return or by an exception.
Ended == pc \in {"loaded", "load_raised"}

\* The frame has just been filtered.
JustFiltered == pc = "panel"

\* The places <<file, row>> of the rows of the upload.
Places == UNION {{<<n, k>> : k \in DOMAIN uploaded_files[n].rows} :
                    n \in DOMAIN uploaded_files}

RawRow(p) == uploaded_files[p[1]].rows[p[2]]

RowsFrom(rows, n) == LET from(r) == r.src[1] = n IN SelectSeq(rows, from)

SrcOf(rows) == {rows[k].src : k \in DOMAIN rows}

About(name) == LET about(m) == m.about = name IN SelectSeq(messages, about)

\* The file has the required columns under the comma and nothing raises.
WellFormed(file) == HasRequired(file) /\ ~Raises(file)

----------------------------------------------------------------------------
\* C1: a file that lacks a required column or raises while it is processed
\* gives no row and exactly one warning or error that names it, and the
\* loop goes on: once the loop is over every file has been visited, and the
\* merged rows hold, for every well-formed file and whatever the place of
\* the bad ones, all its rows in their order.
C1_PartialFailureIsolation ==
    /\ pc \notin {"uploader", "loop"} /\ uploaded_files # <<>>
           => i = Len(uploaded_files) + 1
    /\ pc = "loop" \/ Ended =>
         \A n \in 1..(i - 1) :
            LET file == uploaded_files[n]
                got  == RowsFrom(ConcatRows(all_data), n)
            IN  IF WellFormed(file)
                THEN /\ Len(got) = Len(file.rows)
                     /\ \A k \in DOMAIN got :
                           /\ got[k].src = <<n, k>>
                           /\ got[k].producto = file.rows[k].Keyword
                           /\ got[k].price = file.rows[k].price
                     /\ About(file.name) = <<>>
                ELSE /\ got = <<>>
                     /\ Len(About(file.name)) = 1
                     /\ About(file.name)[1].kind \in {"warning", "error"}

\* Three files, the second one raising: the rows of the first and of the
\* third are merged and one error names the second.
C1_Witness ==
    /\ pc = "loaded"
    /\ Len(uploaded_files) = 3
    /\ uploaded_files[2].malformed
    /\ WellFormed(uploaded_files[1]) /\ WellFormed(uploaded_files[3])
    /\ SrcOf(ConcatRows(all_data)) = {<<1, 1>>, <<3, 1>>}
    /\ messages = <<Msg("error", uploaded_files[2].name)>>
    /\ ~IsEmpty(df)

----------------------------------------------------------------------------
\* C2: in the returned frame es_precio_mas_bajo is true exactly for the
\* rows whose price is the least price of the rows with the same fecha and
\* producto: every row tied at the least price, and a row alone in its
\* group, is flagged.
C2_LowestFlag ==
    Returned =>
        \A k \in DOMAIN df.rows :
            LET r == df.rows[k]
                group == {j \in DOMAIN df.rows : df.rows[j].fecha = r.fecha
                                                 /\ df.rows[j].producto = r.producto}
            IN  r.es_precio_mas_bajo
                    <=> \A j \in group : ~Less(df.rows[j].price, r.price)

----------------------------------------------------------------------------
\* C3: every row of the returned frame has a parsed date, a day of the
\* calendar, and a parsed price, and the frame holds exactly the rows of the
\* appended files whose date and price parse: a row whose date or price does
\* not parse is not kept.
C3_ValidDateAndPrice ==
    Returned =>
        /\ \A k \in DOMAIN df.rows :
              /\ df.rows[k].fecha # NaT
              /\ IsCalendarDay(df.rows[k].fecha)
              /\ ~df.rows[k].price.nan
              /\ df.rows[k].fecha = ParseDate(RawRow(df.rows[k].src).date)
        /\ \A p \in Places :
              (ParseDate(RawRow(p).date) = NaT \/ CleanPrice(RawRow(p).price).nan)
                  => p \notin SrcOf(df.rows)

\* A frame with a row, returned from an upload with a row whose date does
\* not parse and a row whose price does not.
C3_Witness ==
    /\ pc = "loaded"
    /\ ~IsEmpty(df)
    /\ \E p \in Places : ParseDate(RawRow(p).date) = NaT /\ RawRow(p).date # NaN
    /\ \E p \in Places : ParseDate(RawRow(p).date) # NaT /\ CleanPrice(RawRow(p).price).nan

----------------------------------------------------------------------------
\* The row is one the selection asks for.
C4_Keeps(r) ==
    /\ selection.date_range[1] <= r.fecha
    /\ r.fecha <= selection.date_range[2]
    /\ r.producto \in selection.products
    /\ r.dominio \in selection.domains
    /\ ("price_level" \in df.columns /\ selection.price_levels # {})
           => r.price_level \in selection.price_levels

\* C4: the filtered rows are the rows of the frame, in their order, whose
\* date is in the selected range, ends included, whose producto and dominio
\* are selected and, when the frame has the price_level column and a tier is
\* selected, whose price_level is selected; without both ends of the range
\* there is no filtered row, and no selected tier filters nothing.
C4_FilteredSet ==
    JustFiltered =>
        IF Len(selection.date_range) = 2
        THEN filtered_df.rows = SelectSeq(df.rows, C4_Keeps)
        ELSE filtered_df.rows = <<>>

\* Two products and two domains in the frame, one of each selected, and a
\* filtered row, with rows left out for the product and for the domain.
C4_Witness ==
    /\ pc = "panel"
    /\ Cardinality(all_products(df.rows)) = 2 /\ Cardinality(selection.products) = 1
    /\ Cardinality(all_domains(df.rows)) = 2 /\ Cardinality(selection.domains) = 1
    /\ selection.price_levels = {}
    /\ "price_level" \in df.columns
    /\ Len(filtered_df.rows) = 1
    /\ \E k \in DOMAIN df.rows : df.rows[k].producto \notin selection.products
    /\ \E k \in DOMAIN df.rows : /\ df.rows[k].producto \in selection.products
                                 /\ df.rows[k].dominio \notin selection.domains

----------------------------------------------------------------------------
\* The netloc without a 'www.' it starts with.
C5_StripLeading(netloc) == IF StartsWith(netloc, Www) THEN Drop(netloc, Len(Www)) ELSE netloc

\* C5: the dominio of a row is the netloc of its URL without a leading
\* 'www.', and nothing else of the netloc is removed.
C5_LeadingWwwOnly ==
    Returned =>
        \A k \in DOMAIN df.rows :
            df.rows[k].dominio
                = C5_StripLeading(Netloc(Str(RawRow(df.rows[k].src).URL)))

----------------------------------------------------------------------------
\* C6: a file written with the semicolon, holding the required columns, is
\* read again with the semicolon when the comma gives one column: it is
\* appended, and its rows with a date and a price are in the returned frame.
C6_SemicolonAccepted ==
    Returned =>
        \A p \in Places :
            LET file == uploaded_files[p[1]]
            IN  (/\ file.sep = ";"
                 /\ ~file.malformed
                 /\ required_cols \subseteq file.columns
                 /\ ParseDate(RawRow(p).date) # NaT
                 /\ ~CleanPrice(RawRow(p).price).nan)
                    => p \in SrcOf(df.rows)

----------------------------------------------------------------------------
\* C7: a filter widget or a view is drawn only over a frame with a row, and
\* a view only over filtered rows; with no file the run stops after the
\* prompt alone, and with an empty frame it stops after the 'no valid data'
\* warning, nothing drawn.
C7_NothingOverEmptyFrame ==
    /\ rendered \cap (FilterWidgets \cup Views) # {} => df.rows # <<>>
    /\ rendered \cap Views # {} => filtered_df.rows # <<>>
    /\ pc = "stopped" /\ uploaded_files = <<>>
           => messages = <<Msg("info", <<"upload", 0>>)>> /\ rendered = {}
    /\ uploaded_files # <<>> /\ df.rows = <<>> /\ pc \notin {"uploader", "loop", "loaded", "load_raised"}
           => /\ pc = "stopped"
              /\ messages[Len(messages)] = Msg("warning", <<"no valid data", 0>>)
              /\ rendered = {}

\* One file whose only price is "n/a": the run has stopped on the warning.
C7_Witness ==
    /\ pc = "stopped"
    /\ Len(uploaded_files) = 1
    /\ WellFormed(uploaded_files[1])
    /\ Len(uploaded_files[1].rows) = 1
    /\ uploaded_files[1].rows[1].price = PNa
    /\ ParseDate(uploaded_files[1].rows[1].date) # NaT
    /\ messages = <<Msg("warning", <<"no valid data", 0>>)>>
    /\ rendered = {}

----------------------------------------------------------------------------
\* The tier of a price_level cell, the case of its letters set aside.
C8_Expected(cell) ==
    IF cell = NaN THEN NoLevel
    ELSE IF Lower(cell) = Lower(LBajo) THEN 1
    ELSE IF Lower(cell) = Lower(LMedio) THEN 2
    ELSE IF Lower(cell) = Lower(LAlto) THEN 3
    ELSE NoLevel

\* C8: when a file with the price_level column was read, every row with a
\* date and a price is kept, with price_level_numeric 1, 2 or 3 for bajo,
\* medio or alto in any case of the letters and no value for a missing cell
\* or any other word.
C8_TierMapping ==
    Ended /\ (\E n \in DOMAIN uploaded_files :
                 WellFormed(uploaded_files[n]) /\ "price_level" \in uploaded_files[n].columns)
        => \A p \in Places :
              (/\ WellFormed(uploaded_files[p[1]])
               /\ ParseDate(RawRow(p).date) # NaT
               /\ ~CleanPrice(RawRow(p).price).nan)
                  => \E k \in DOMAIN df.rows :
                        /\ df.rows[k].src = p
                        /\ df.rows[k].price_level_numeric
                               = C8_Expected(df.rows[k].price_level)

----------------------------------------------------------------------------
\* The digits and the dots of a raw price.
C9_DigitOrDot(c) == c \in Digits \cup {"."}

C9_Written(raw) == SelectSeq(Str(raw), C9_DigitOrDot)

C9_IsNumber(t) ==
    /\ \E k \in DOMAIN t : t[k] \in Digits
    /\ Cardinality({k \in DOMAIN t : t[k] = "."}) <= 1

\* The number [m, e] is the one the text of digits and at most one dot writes.
C9_Reads(v, t) ==
    LET intpart  == IF \E k \in DOMAIN t : t[k] = "."
                    THEN SubSeq(t, 1, Find(t, {"."}) - 1) ELSE t
        fraction == IF \E k \in DOMAIN t : t[k] = "."
                    THEN Drop(t, Find(t, {"."})) ELSE <<>>
    IN  v.m * Pow10(Len(fraction))
            = (IntOf(intpart) * Pow10(Len(fraction)) + IntOf(fraction)) * Pow10(v.e)

\* C9: the price of a kept row is the number written by the digits and the
\* dots of the raw text, commas and every other character left out
\* ("$ 1,234.56 USD" is 1234.56); a row whose digits and dots are no number
\* (none left, as for "n/a", or more than one dot) is not kept.
C9_PriceNormalization ==
    Returned =>
        \A p \in Places :
            (WellFormed(uploaded_files[p[1]]) /\ ParseDate(RawRow(p).date) # NaT)
                => LET t == C9_Written(RawRow(p).price)
                   IN  IF C9_IsNumber(t)
                       THEN \E k \in DOMAIN df.rows :
                               /\ df.rows[k].src = p
                               /\ ~df.rows[k].price.nan
                               /\ C9_Reads(df.rows[k].price, t)
                               /\ (RawRow(p).price = PNoisy
                                      => df.rows[k].price = [nan |-> FALSE, m |-> 123456, e |-> 2])
                       ELSE p \notin SrcOf(df.rows)

\* The noisy "1,234.56" has been read as 1234.56.
C9_Witness ==
    /\ pc = "loaded"
    /\ Len(df.rows) = 1
    /\ RawRow(df.rows[1].src).price = PNoisy
    /\ df.rows[1].price = [nan |-> FALSE, m |-> 123456, e |-> 2]

----------------------------------------------------------------------------
\* C10 as stated: under the selection the widgets start with, no row of the
\* frame is filtered out.
C10_DefaultsKeepAll ==
    JustFiltered /\ selection = DefaultSelection(df)
        => filtered_df.rows = df.rows

C10_HasLevel(r) == r.price_level # NaN

\* C10 as amended: under the selection the widgets start with, the filtered
\* rows are the rows of the frame, but for the rows with no price_level when
\* the frame has the column and a row of it has a price_level.
C10_DefaultsKeepTiered ==
    JustFiltered /\ selection = DefaultSelection(df)
        => IF "price_level" \in df.columns
              /\ \E k \in DOMAIN df.rows : df.rows[k].price_level # NaN
           THEN filtered_df.rows = SelectSeq(df.rows, C10_HasLevel)
           ELSE filtered_df.rows = df.rows

\* The defaults over a frame with a tiered row and a row with no tier, on
\* two dates: the tiered row is kept, the other is not.
C10_Witness ==
    /\ pc = "panel"
    /\ selection = DefaultSelection(df)
    /\ Len(df.rows) = 2
    /\ Len(filtered_df.rows) = 1
    /\ df.rows[1].price_level = NaN

====
